---- MODULE Spec2Model ----
(***************************************************************************)
(* grump: scan a Go project for vulnerabilities, extract the fixable       *)
(* updates, apply them through the mutation engine, report, exit.          *)
(*                                                                         *)
(* A Go string is modelled as the sequence of its bytes, each byte written *)
(* as a one-character string; Ord gives the byte value.                    *)
(***************************************************************************)
EXTENDS Integers, Sequences, FiniteSets, TLC

\* ------------------------------------------------------------------ bounds
MaxMatches == 2
MaxUpdates == 3

\* ------------------------------------------------------------ Go strings
Digits == {"0", "1", "2", "3", "4", "5", "6", "7", "8", "9"}
Letters == {"a", "b", "c", "r", "v", "x"}

Ord(c) ==
    CASE c = " " -> 32
      [] c = "+" -> 43
      [] c = "-" -> 45
      [] c = "." -> 46
      [] c = "0" -> 48
      [] c = "1" -> 49
      [] c = "2" -> 50
      [] c = "3" -> 51
      [] c = "4" -> 52
      [] c = "5" -> 53
      [] c = "6" -> 54
      [] c = "7" -> 55
      [] c = "8" -> 56
      [] c = "9" -> 57
      [] c = "a" -> 97
      [] c = "b" -> 98
      [] c = "c" -> 99
      [] c = "r" -> 114
      [] c = "v" -> 118
      [] c = "x" -> 120

\* a local variable of the code: e is evaluated once and F applied to its value
Bind(e, F(_)) == CHOOSE r \in { F(x) : x \in {e} } : TRUE

\* s[i:] and s[:i] of Go, with 0-based i
From(s, i) == SubSeq(s, i + 1, Len(s))
Upto(s, i) == SubSeq(s, 1, i)

RECURSIVE StrLess(_, _)
\* Go's a < b on strings: byte-wise lexical order
StrLess(a, b) ==
    IF b = <<>> THEN FALSE
    ELSE IF a = <<>> THEN TRUE
    ELSE IF Head(a) # Head(b) THEN Ord(Head(a)) < Ord(Head(b))
    ELSE StrLess(Tail(a), Tail(b))

\* Go's a >= b on strings
StrGeq(a, b) == ~StrLess(a, b)

HasPrefix(s, p) == Len(s) >= Len(p) /\ Upto(s, Len(p)) = p

RECURSIVE IndexFrom(_, _, _)
IndexFrom(s, sub, i) ==
    IF i + Len(sub) > Len(s) THEN -1
    ELSE IF SubSeq(s, i + 1, i + Len(sub)) = sub THEN i
    ELSE IndexFrom(s, sub, i + 1)

\* strings.Index: 0-based index of the first occurrence of sub in s, or -1
Index(s, sub) == IndexFrom(s, sub, 0)

\* ------------------------------------------------- golang.org/x/mod/semver
IsDigit(c) == c \in Digits
isIdentChar(c) == c \in Digits \cup Letters \cup {"-"}

RECURSIVE DigitRun(_)
\* length of the leading run of digits
DigitRun(v) ==
    IF v = <<>> \/ ~IsDigit(Head(v)) THEN 0 ELSE 1 + DigitRun(Tail(v))

NoParse == [t |-> <<>>, rest |-> <<>>, ok |-> FALSE]

parseInt(v) ==
    IF v = <<>> THEN NoParse
    ELSE IF ~IsDigit(v[1]) THEN NoParse
    ELSE Bind(DigitRun(v), LAMBDA i :
             IF v[1] = "0" /\ i # 1 THEN NoParse
             ELSE [t |-> Upto(v, i), rest |-> From(v, i), ok |-> TRUE])

isNum(v) == DigitRun(v) = Len(v)

isBadNum(v) == DigitRun(v) = Len(v) /\ Len(v) > 1 /\ v[1] = "0"

RECURSIVE IdentScan(_, _, _, _, _)
\* the scanning loop shared by parsePrerelease and parseBuild: returns the
\* end index i, or -1 when an identifier is malformed
IdentScan(v, i, start, stopAtPlus, checkNum) ==
    IF i < Len(v) /\ ~(stopAtPlus /\ v[i + 1] = "+")
    THEN IF ~isIdentChar(v[i + 1]) /\ v[i + 1] # "." THEN -1
         ELSE IF v[i + 1] = "."
              THEN IF start = i \/ (checkNum /\ isBadNum(SubSeq(v, start + 1, i)))
                   THEN -1
                   ELSE IdentScan(v, i + 1, i + 1, stopAtPlus, checkNum)
              ELSE IdentScan(v, i + 1, start, stopAtPlus, checkNum)
    ELSE IF start = i \/ (checkNum /\ isBadNum(SubSeq(v, start + 1, i)))
         THEN -1
         ELSE i

parsePrerelease(v) ==
    IF v = <<>> \/ v[1] # "-" THEN NoParse
    ELSE Bind(IdentScan(v, 1, 1, TRUE, TRUE), LAMBDA i :
             IF i = -1 THEN NoParse
             ELSE [t |-> Upto(v, i), rest |-> From(v, i), ok |-> TRUE])

parseBuild(v) ==
    IF v = <<>> \/ v[1] # "+" THEN NoParse
    ELSE Bind(IdentScan(v, 1, 1, FALSE, FALSE), LAMBDA i :
             IF i = -1 THEN NoParse
             ELSE [t |-> Upto(v, i), rest |-> From(v, i), ok |-> TRUE])

BadParse ==
    [major |-> <<>>, minor |-> <<>>, patch |-> <<>>, short |-> <<>>,
     prerelease |-> <<>>, build |-> <<>>, ok |-> FALSE]

Parsed(t, rest) == [t |-> t, rest |-> rest, ok |-> TRUE]

\* the end of parse: the optional build metadata, then nothing
parseBuildPart(p, w) ==
    Bind(IF w # <<>> /\ w[1] = "+" THEN parseBuild(w) ELSE Parsed(<<>>, w), LAMBDA bld :
        IF ~bld.ok THEN BadParse
        ELSE IF bld.rest # <<>> THEN BadParse
        ELSE [p EXCEPT !.build = bld.t, !.ok = TRUE])

\* parse after major.minor.patch: the optional pre-release, then the build
parseSuffix(p, v) ==
    Bind(IF v # <<>> /\ v[1] = "-" THEN parsePrerelease(v) ELSE Parsed(<<>>, v), LAMBDA pre :
        IF ~pre.ok THEN BadParse
        ELSE parseBuildPart([p EXCEPT !.prerelease = pre.t], pre.rest))

\* parse after "vMAJOR.MINOR."
parsePatch(p, v) ==
    Bind(parseInt(v), LAMBDA pa :
        IF ~pa.ok THEN BadParse
        ELSE parseSuffix([p EXCEPT !.patch = pa.t], pa.rest))

\* parse after "vMAJOR."
parseMinor(p, v) ==
    Bind(parseInt(v), LAMBDA mi :
        IF ~mi.ok THEN BadParse
        ELSE IF mi.rest = <<>>
        THEN [p EXCEPT !.minor = mi.t, !.patch = <<"0">>, !.short = <<".", "0">>, !.ok = TRUE]
        ELSE IF mi.rest[1] # "." THEN BadParse
        ELSE parsePatch([p EXCEPT !.minor = mi.t], From(mi.rest, 1)))

parse(v) ==
    IF v = <<>> \/ v[1] # "v" THEN BadParse
    ELSE Bind(parseInt(From(v, 1)), LAMBDA ma :
             IF ~ma.ok THEN BadParse
             ELSE IF ma.rest = <<>>
             THEN [BadParse EXCEPT !.major = ma.t, !.minor = <<"0">>, !.patch = <<"0">>,
                                   !.short = <<".", "0", ".", "0">>, !.ok = TRUE]
             ELSE IF ma.rest[1] # "." THEN BadParse
             ELSE parseMinor([BadParse EXCEPT !.major = ma.t], From(ma.rest, 1)))

\* semver.IsValid
IsValid(v) == parse(v).ok

\* semver.Canonical
Canonical(v) ==
    Bind(parse(v), LAMBDA p :
        IF ~p.ok THEN <<>>
        ELSE IF p.build # <<>> THEN Upto(v, Len(v) - Len(p.build))
        ELSE IF p.short # <<>> THEN v \o p.short
        ELSE v)

compareInt(x, y) ==
    IF x = y THEN 0
    ELSE IF Len(x) < Len(y) THEN -1
    ELSE IF Len(x) > Len(y) THEN 1
    ELSE IF StrLess(x, y) THEN -1
    ELSE 1

RECURSIVE IdentLen(_)
\* nextIdent: length of the identifier up to the next "."
IdentLen(x) == IF x = <<>> \/ Head(x) = "." THEN 0 ELSE 1 + IdentLen(Tail(x))

\* the comparison of two differing pre-release identifiers
compareIdent(dx, dy) ==
    IF isNum(dx) # isNum(dy) THEN (IF isNum(dx) THEN -1 ELSE 1)
    ELSE IF isNum(dx) /\ Len(dx) < Len(dy) THEN -1
    ELSE IF isNum(dx) /\ Len(dx) > Len(dy) THEN 1
    ELSE IF StrLess(dx, dy) THEN -1
    ELSE 1

RECURSIVE prereleaseLoop(_, _)
\* the loop of comparePrerelease; x and y start at their "-" or "."
prereleaseLoop(x, y) ==
    IF x # <<>> /\ y # <<>>
    THEN Bind(<<Tail(x), Tail(y)>>, LAMBDA r :
             Bind(<<IdentLen(r[1]), IdentLen(r[2])>>, LAMBDA n :
                 IF Upto(r[1], n[1]) # Upto(r[2], n[2])
                 THEN compareIdent(Upto(r[1], n[1]), Upto(r[2], n[2]))
                 ELSE prereleaseLoop(From(r[1], n[1]), From(r[2], n[2]))))
    ELSE IF x = <<>> THEN -1 ELSE 1

comparePrerelease(x, y) ==
    IF x = y THEN 0
    ELSE IF x = <<>> THEN 1
    ELSE IF y = <<>> THEN -1
    ELSE prereleaseLoop(x, y)

\* semver.Compare on the parsed versions
compareParsed(pv, pw) ==
    IF ~pv.ok /\ ~pw.ok THEN 0
    ELSE IF ~pv.ok THEN -1
    ELSE IF ~pw.ok THEN 1
    ELSE IF pv.major # pw.major THEN compareInt(pv.major, pw.major)
    ELSE IF pv.minor # pw.minor THEN compareInt(pv.minor, pw.minor)
    ELSE IF pv.patch # pw.patch THEN compareInt(pv.patch, pw.patch)
    ELSE comparePrerelease(pv.prerelease, pw.prerelease)

\* semver.Compare
Compare(v, w) == Bind(<<parse(v), parse(w)>>, LAMBDA p : compareParsed(p[1], p[2]))

\* ------------------------------------------------------ version literals
v1_0_0 == <<"v", "1", ".", "0", ".", "0">>
v1_1_0 == <<"v", "1", ".", "1", ".", "0">>
v1_2_0 == <<"v", "1", ".", "2", ".", "0">>
v1_10_0 == <<"v", "1", ".", "1", "0", ".", "0">>
v2_0_0 == <<"v", "2", ".", "0", ".", "0">>
v2_1_0 == <<"v", "2", ".", "1", ".", "0">>
v1_2 == <<"v", "1", ".", "2">>
v1_1a == <<"v", "1", ".", "1", "a">>
bare1_1_0 == <<"1", ".", "1", ".", "0">>
bare1_2_0 == <<"1", ".", "2", ".", "0">>
bare1_10_0 == <<"1", ".", "1", "0", ".", "0">>
bare2_0_0 == <<"2", ".", "0", ".", "0">>
bare2_0_1 == <<"2", ".", "0", ".", "1">>
badVersion == <<"1", ".", "2", " ", "0">>
emptyString == <<>>

\* ------------------------------------------------ pkg/scanner/scanner.go
GoModulePkg == "go-module"
FixStateFixed == "fixed"

NilMetadata == [nil |-> TRUE, Severity |-> ""]
Metadata(sev) == [nil |-> FALSE, Severity |-> sev]

Match(name, version, type, state, fixes, meta, id) ==
    [Name |-> name, Version |-> version, Type |-> type, FixState |-> state,
     FixVersions |-> fixes, Metadata |-> meta, ID |-> id]

\* the matches the scan engine can return in this model
MatchUniverse ==
    { Match("pkgA", v1_0_0, GoModulePkg, FixStateFixed, <<bare1_2_0>>, Metadata("High"), "GHSA-1"),
      Match("pkgA", v1_0_0, GoModulePkg, FixStateFixed, <<bare1_1_0, bare1_10_0>>, NilMetadata, "GHSA-2"),
      Match("pkgA", v1_0_0, GoModulePkg, FixStateFixed, <<bare1_10_0>>, Metadata(""), "GHSA-3"),
      Match("pkgB", v2_0_0, GoModulePkg, FixStateFixed, <<bare2_0_0>>, Metadata("Low"), "GHSA-4"),
      Match("pkgB", v2_0_0, "deb", FixStateFixed, <<bare2_0_1>>, Metadata("High"), "GHSA-5"),
      Match("pkgB", v2_0_0, GoModulePkg, "not-fixed", <<bare2_0_1>>, Metadata("High"), "GHSA-6"),
      Match("pkgA", v1_0_0, GoModulePkg, FixStateFixed, <<>>, Metadata("High"), "GHSA-7"),
      Match("pkgA", v1_0_0, GoModulePkg, FixStateFixed, <<emptyString, bare1_2_0>>, Metadata("High"), "GHSA-8"),
      Match("pkgB", v2_0_0, GoModulePkg, FixStateFixed, <<badVersion>>, Metadata("High"), "GHSA-9"),
      Match("pkgB", v1_2, GoModulePkg, FixStateFixed, <<v2_1_0>>, NilMetadata, "GHSA-10"),
      Match("pkgB", bare2_0_0, GoModulePkg, FixStateFixed, <<bare2_0_1>>, Metadata("High"), "GHSA-11") }

\* fault: the canonical form searched for with its "v" still on
prefixFromCanonicalKeepV(currentVersion, targetVersion, canonical) ==
    Bind(Index(currentVersion, canonical), LAMBDA i :
        IF i = -1 THEN targetVersion
        ELSE Upto(currentVersion, i) \o targetVersion)

\* fault: a one-character prefix taken when the canonical core is not found
prefixFromCanonicalFirstChar(currentVersion, targetVersion, canonical) ==
    Bind(IF HasPrefix(canonical, <<"v">>) THEN From(canonical, 1) ELSE canonical,
         LAMBDA majorMinorPatch :
            Bind(Index(currentVersion, majorMinorPatch), LAMBDA i :
                IF i = -1 THEN Upto(currentVersion, 1) \o targetVersion
                ELSE Upto(currentVersion, i) \o targetVersion))

\* normalizeVersion from the canonical form of a valid current version on
prefixFromCanonical(currentVersion, targetVersion, canonical) ==
    Bind(IF HasPrefix(canonical, <<"v">>) THEN From(canonical, 1) ELSE canonical,
         LAMBDA majorMinorPatch :
            Bind(Index(currentVersion, majorMinorPatch), LAMBDA i :
                IF i = -1 THEN targetVersion
                ELSE Upto(currentVersion, i) \o targetVersion))

normalizeVersion(currentVersion, targetVersion) ==
    IF ~IsValid(currentVersion) THEN targetVersion
    ELSE Bind(Canonical(currentVersion), LAMBDA canonical :
             prefixFromCanonical(currentVersion, targetVersion, canonical))

\* module.Check of golang.org/x/mod for the module paths of this model, none
\* of which has a major-version suffix: the version must be a semantic
\* version of major v0 or v1
moduleCheck(pkgName, version) ==
    Bind(parse(version), LAMBDA p : p.ok /\ p.major \in {<<"0">>, <<"1">>})

isValidGoVersion(pkgName, version) ==
    IF IsValid(version) THEN TRUE ELSE moduleCheck(pkgName, version)

PackageUpdate(name, current, target, id, severity) ==
    [Name |-> name, CurrentVersion |-> current, TargetVersion |-> target,
     VulnID |-> id, Severity |-> severity]

\* severity of the emitted update (scanner.go lines 183-187)
SeverityOf(m) == IF ~m.Metadata.nil THEN m.Metadata.Severity ELSE "Unknown"

\* fault: the loop body of GetFixableUpdates without the fix-state test
ExtractMatchAnyFixState(updates, m) ==
    IF m.Type # GoModulePkg THEN updates
    ELSE IF Len(m.FixVersions) = 0 THEN updates
    ELSE IF m.FixVersions[1] = emptyString THEN updates
    ELSE Bind(normalizeVersion(m.Version, m.FixVersions[1]), LAMBDA normalizedVersion :
             IF ~isValidGoVersion(m.Name, normalizedVersion) THEN updates
             ELSE Append(updates,
                         PackageUpdate(m.Name, m.Version, normalizedVersion,
                                       m.ID, SeverityOf(m))))

\* fault: the loop body of GetFixableUpdates emitting the suggested version
\* as it came, after validating the normalized one
ExtractMatchRawVersion(updates, m) ==
    IF m.Type # GoModulePkg THEN updates
    ELSE IF Len(m.FixVersions) = 0 \/ m.FixState # FixStateFixed THEN updates
    ELSE IF m.FixVersions[1] = emptyString THEN updates
    ELSE Bind(normalizeVersion(m.Version, m.FixVersions[1]), LAMBDA normalizedVersion :
             IF ~isValidGoVersion(m.Name, normalizedVersion) THEN updates
             ELSE Append(updates,
                         PackageUpdate(m.Name, m.Version, m.FixVersions[1],
                                       m.ID, SeverityOf(m))))

\* one iteration of the loop of GetFixableUpdates over match m
ExtractMatch(updates, m) ==
    IF m.Type # GoModulePkg THEN updates
    ELSE IF Len(m.FixVersions) = 0 \/ m.FixState # FixStateFixed THEN updates
    ELSE Bind(IF Len(m.FixVersions) > 0 THEN m.FixVersions[1] ELSE emptyString,
              LAMBDA suggestedVersion :
                IF suggestedVersion = emptyString THEN updates
                ELSE Bind(normalizeVersion(m.Version, suggestedVersion),
                          LAMBDA normalizedVersion :
                            IF ~isValidGoVersion(m.Name, normalizedVersion) THEN updates
                            ELSE Append(updates,
                                        PackageUpdate(m.Name, m.Version, normalizedVersion,
                                                      m.ID, SeverityOf(m)))))

RECURSIVE GetFixableUpdatesLoop(_, _)
GetFixableUpdatesLoop(ms, updates) ==
    IF ms = <<>> THEN updates
    ELSE GetFixableUpdatesLoop(Tail(ms), ExtractMatch(updates, Head(ms)))

GetFixableUpdates(ms) == GetFixableUpdatesLoop(ms, <<>>)

\* ------------------------------------------------ pkg/patcher/patcher.go
\* fault: semver.Compare alone, without the lexical comparison
shouldSkipUpdateSemverOnly(appliedVersion, targetVersion) ==
    Compare(appliedVersion, targetVersion) >= 0

\* fault: no update is ever skipped
shouldSkipUpdateNever(appliedVersion, targetVersion) == FALSE

\* fault: only a target identical to the applied version is skipped
shouldSkipUpdateIdentical(appliedVersion, targetVersion) ==
    appliedVersion = targetVersion

\* fault: shouldSkipUpdate comparing as strings only
shouldSkipUpdateLexical(appliedVersion, targetVersion) ==
    StrGeq(appliedVersion, targetVersion)

\* fault: shouldSkipUpdate skipping only a strictly newer applied version
shouldSkipUpdateStrict(appliedVersion, targetVersion) ==
    IF IsValid(appliedVersion) /\ IsValid(targetVersion)
    THEN Compare(appliedVersion, targetVersion) > 0
    ELSE StrLess(targetVersion, appliedVersion)

shouldSkipUpdate(appliedVersion, targetVersion) ==
    IF IsValid(appliedVersion) /\ IsValid(targetVersion)
    THEN Compare(appliedVersion, targetVersion) >= 0
    ELSE StrGeq(appliedVersion, targetVersion)

UpdateResult(upd, success) == [Update |-> upd, Success |-> success]

UpdatePackageCall(name, version, ok) ==
    [op |-> "UpdatePackage", name |-> name, version |-> version, ok |-> ok]

RunGoTidyCall(ok) == [op |-> "RunGoTidy", name |-> "", version |-> <<>>, ok |-> ok]

\* the updates UpdateAll can be handed directly (any target-version strings)
UpdateUniverse ==
    { PackageUpdate(n, v1_0_0, t, "GHSA-1", "High") :
        n \in {"pkgA", "pkgB"}, t \in {v1_2_0, v1_10_0, v1_1a, v1_2} }

\* ------------------------------------------------------ cmd/grump/main.go
Min(S) == CHOOSE x \in S : \A y \in S : x <= y

SeqsUpTo(S, n) == UNION { [1..k -> S] : k \in 0..n }

VARIABLES pc, matches, updates, idx, appliedVersions, results, calls, exitCode, fatal,
          report, versionCall

vars == <<pc, matches, updates, idx, appliedVersions, results, calls, exitCode, fatal,
          report, versionCall>>

\* fault: a failed tidy pass counted as a failed update
ExitCodeWithTidy(res) ==
    IF \/ \E k \in 1..Len(res) : ~res[k].Success
       \/ \E k \in 1..Len(calls) : calls[k].op = "RunGoTidy" /\ ~calls[k].ok
    THEN 1 ELSE 0

\* exit code of run after a successful report
ExitCode(res) == IF \E k \in 1..Len(res) : ~res[k].Success THEN 1 ELSE 0

NoExit == -1

\* nothing has been written to the report writer
NoReport == [format |-> "none", numbers |-> <<>>]

\* no version function is under examination
NoVersionCall == [fn |-> "none", a |-> <<>>, b |-> <<>>, out |-> <<>>, skip |-> FALSE]
EmptyMap == [n \in {} |-> <<>>]

\* run is entered; nothing has been called yet
Init ==
    /\ pc = "scannerNew"
    /\ matches = <<>>
    /\ updates = <<>>
    /\ idx = 0
    /\ appliedVersions = EmptyMap
    /\ results = <<>>
    /\ calls = <<>>
    /\ exitCode = NoExit
    /\ fatal = "none"
    /\ report = NoReport
    /\ versionCall = NoVersionCall

\* UpdateAll is entered with an arbitrary list of updates
InitApply ==
    /\ pc = "updateAll"
    /\ matches = <<>>
    /\ updates \in SeqsUpTo(UpdateUniverse, MaxUpdates)
    /\ idx = 0
    /\ appliedVersions = EmptyMap
    /\ results = <<>>
    /\ calls = <<>>
    /\ exitCode = NoExit
    /\ fatal = "none"
    /\ report = NoReport
    /\ versionCall = NoVersionCall

Fatal(where) ==
    /\ pc' = "exit"
    /\ exitCode' = 2
    /\ fatal' = where

\* scanner.New(grypeConfigPath)
ScannerNew(ok) ==
    /\ pc = "scannerNew"
    /\ IF ok THEN pc' = "scan" /\ UNCHANGED <<exitCode, fatal>>
       ELSE Fatal("scannerNew")
    /\ UNCHANGED <<matches, updates, idx, appliedVersions, results, calls>>
    /\ UNCHANGED <<report, versionCall>>

\* scan.Scan(goModPath) returns matches
ScanOk(ms) ==
    /\ pc = "scan"
    /\ matches' = ms
    /\ pc' = "extract"
    /\ UNCHANGED <<updates, idx, appliedVersions, results, calls, exitCode, fatal>>
    /\ UNCHANGED <<report, versionCall>>

\* scan.Scan(goModPath) returns an error
ScanFail ==
    /\ pc = "scan"
    /\ Fatal("scan")
    /\ UNCHANGED <<matches, updates, idx, appliedVersions, results, calls>>
    /\ UNCHANGED <<report, versionCall>>

\* updates := scan.GetFixableUpdates(matches); return 0 when there are none
Extract ==
    /\ pc = "extract"
    /\ \E extracted \in {GetFixableUpdates(matches)} :
        /\ updates' = extracted
        /\ IF Len(extracted) = 0
           THEN pc' = "exit" /\ exitCode' = 0
           ELSE pc' = "patcherNew" /\ UNCHANGED exitCode
    /\ UNCHANGED <<matches, idx, appliedVersions, results, calls, fatal>>
    /\ UNCHANGED <<report, versionCall>>

\* fault: run going on to UpdateAll after patcher.New failed
PatcherNewIgnoreError(ok) ==
    /\ pc = "patcherNew"
    /\ pc' = "updateAll"
    /\ IF ok THEN UNCHANGED <<exitCode, fatal>>
       ELSE exitCode' = 2 /\ fatal' = "patcherNew"
    /\ idx' = 0
    /\ appliedVersions' = EmptyMap
    /\ results' = <<>>
    /\ UNCHANGED <<matches, updates, calls>>
    /\ UNCHANGED <<report, versionCall>>

\* patcher.New(projectDir), then entry into UpdateAll
PatcherNew(ok) ==
    /\ pc = "patcherNew"
    /\ IF ok THEN pc' = "updateAll" /\ UNCHANGED <<exitCode, fatal>>
       ELSE Fatal("patcherNew")
    /\ idx' = 0
    /\ appliedVersions' = EmptyMap
    /\ results' = <<>>
    /\ UNCHANGED <<matches, updates, calls>>
    /\ UNCHANGED <<report, versionCall>>

\* fault: a package without an applied version tested against the version
\* it currently has
SkippedAgainstCurrent(applied, upd) ==
    IF upd.Name \in DOMAIN applied
    THEN shouldSkipUpdate(applied[upd.Name], upd.TargetVersion)
    ELSE shouldSkipUpdate(upd.CurrentVersion, upd.TargetVersion)

\* the skip test of one UpdateAll iteration
Skipped(applied, upd) ==
    /\ upd.Name \in DOMAIN applied
    /\ shouldSkipUpdate(applied[upd.Name], upd.TargetVersion)

\* an UpdateAll iteration that skips the update
UpdateAllSkip ==
    /\ pc = "updateAll"
    /\ idx < Len(updates)
    /\ Skipped(appliedVersions, updates[idx + 1])
    /\ idx' = idx + 1
    /\ UNCHANGED <<pc, matches, updates, appliedVersions, results, calls, exitCode, fatal>>
    /\ UNCHANGED <<report, versionCall>>

\* fault: UpdateAll leaving its loop at the first failed UpdatePackage
UpdateAllAttemptBreak(ok) ==
    /\ pc = "updateAll"
    /\ idx < Len(updates)
    /\ ~Skipped(appliedVersions, updates[idx + 1])
    /\ LET upd == updates[idx + 1]
       IN  /\ calls' = Append(calls, UpdatePackageCall(upd.Name, upd.TargetVersion, ok))
           /\ results' = Append(results, UpdateResult(upd, ok))
           /\ appliedVersions' =
                IF ok
                THEN [n \in DOMAIN appliedVersions \cup {upd.Name} |->
                        IF n = upd.Name THEN upd.TargetVersion ELSE appliedVersions[n]]
                ELSE appliedVersions
    /\ idx' = IF ok THEN idx + 1 ELSE Len(updates)
    /\ UNCHANGED <<pc, matches, updates, exitCode, fatal>>
    /\ UNCHANGED <<report, versionCall>>

\* fault: UpdateAll recording the target as applied after a failed UpdatePackage too
UpdateAllAttemptRecordAlways(ok) ==
    /\ pc = "updateAll"
    /\ idx < Len(updates)
    /\ ~Skipped(appliedVersions, updates[idx + 1])
    /\ LET upd == updates[idx + 1]
       IN  /\ calls' = Append(calls, UpdatePackageCall(upd.Name, upd.TargetVersion, ok))
           /\ results' = Append(results, UpdateResult(upd, ok))
           /\ appliedVersions' =
                IF TRUE
                THEN [n \in DOMAIN appliedVersions \cup {upd.Name} |->
                        IF n = upd.Name THEN upd.TargetVersion ELSE appliedVersions[n]]
                ELSE appliedVersions
    /\ idx' = idx + 1
    /\ UNCHANGED <<pc, matches, updates, exitCode, fatal>>
    /\ UNCHANGED <<report, versionCall>>

\* fault: UpdateAll returning no UpdateResult for a failed UpdatePackage
UpdateAllAttemptNoFailureResult(ok) ==
    /\ pc = "updateAll"
    /\ idx < Len(updates)
    /\ ~Skipped(appliedVersions, updates[idx + 1])
    /\ LET upd == updates[idx + 1]
       IN  /\ calls' = Append(calls, UpdatePackageCall(upd.Name, upd.TargetVersion, ok))
           /\ results' = IF ok THEN Append(results, UpdateResult(upd, ok)) ELSE results
           /\ appliedVersions' =
                IF ok
                THEN [n \in DOMAIN appliedVersions \cup {upd.Name} |->
                        IF n = upd.Name THEN upd.TargetVersion ELSE appliedVersions[n]]
                ELSE appliedVersions
    /\ idx' = idx + 1
    /\ UNCHANGED <<pc, matches, updates, exitCode, fatal>>
    /\ UNCHANGED <<report, versionCall>>

\* fault: UpdateAll putting each new UpdateResult in front of the earlier ones
UpdateAllAttemptPrepend(ok) ==
    /\ pc = "updateAll"
    /\ idx < Len(updates)
    /\ ~Skipped(appliedVersions, updates[idx + 1])
    /\ LET upd == updates[idx + 1]
       IN  /\ calls' = Append(calls, UpdatePackageCall(upd.Name, upd.TargetVersion, ok))
           /\ results' = <<UpdateResult(upd, ok)>> \o results
           /\ appliedVersions' =
                IF ok
                THEN [n \in DOMAIN appliedVersions \cup {upd.Name} |->
                        IF n = upd.Name THEN upd.TargetVersion ELSE appliedVersions[n]]
                ELSE appliedVersions
    /\ idx' = idx + 1
    /\ UNCHANGED <<pc, matches, updates, exitCode, fatal>>
    /\ UNCHANGED <<report, versionCall>>

\* an UpdateAll iteration that calls UpdatePackage, which succeeds iff ok
UpdateAllAttempt(ok) ==
    /\ pc = "updateAll"
    /\ idx < Len(updates)
    /\ ~Skipped(appliedVersions, updates[idx + 1])
    /\ LET upd == updates[idx + 1]
       IN  /\ calls' = Append(calls, UpdatePackageCall(upd.Name, upd.TargetVersion, ok))
           /\ results' = Append(results, UpdateResult(upd, ok))
           /\ appliedVersions' =
                IF ok
                THEN [n \in DOMAIN appliedVersions \cup {upd.Name} |->
                        IF n = upd.Name THEN upd.TargetVersion ELSE appliedVersions[n]]
                ELSE appliedVersions
    /\ idx' = idx + 1
    /\ UNCHANGED <<pc, matches, updates, exitCode, fatal>>
    /\ UNCHANGED <<report, versionCall>>

\* fault: UpdateAll returning without the tidy pass when an update failed
RunGoTidyUnlessFailed(ok) ==
    /\ pc = "updateAll"
    /\ idx = Len(updates)
    /\ calls' = IF \E k \in 1..Len(results) : ~results[k].Success THEN calls
                ELSE Append(calls, RunGoTidyCall(ok))
    /\ pc' = "returned"
    /\ UNCHANGED <<matches, updates, idx, appliedVersions, results, exitCode, fatal>>
    /\ UNCHANGED <<report, versionCall>>

\* the end of UpdateAll: RunGoTidy, a warning on failure, return results
RunGoTidy(ok) ==
    /\ pc = "updateAll"
    /\ idx = Len(updates)
    /\ calls' = Append(calls, RunGoTidyCall(ok))
    /\ pc' = "returned"
    /\ UNCHANGED <<matches, updates, idx, appliedVersions, results, exitCode, fatal>>
    /\ UNCHANGED <<report, versionCall>>

\* ---------------------------------------------------------------- reporter
\* ResultStats
ResultStats(pu, pf, vf, vn) ==
    [PackagesUpdated |-> pu, PackagesFailed |-> pf,
     VulnerabilitiesFixed |-> vf, VulnerabilitiesFailed |-> vn]

\* updatedPackages[name] after the first loop of AnalyzeResults
updatedPackages(rs, name) ==
    \E k \in 1..Len(rs) : rs[k].Success /\ rs[k].Update.Name = name

\* hasFailed of the second loop of AnalyzeResults
hasFailed(rs, name) ==
    \E k \in 1..Len(rs) : rs[k].Update.Name = name /\ ~rs[k].Success

\* fault: AnalyzeResults counting every update that was not fixed as failed
AnalyzeResultsUnfixedFailed(us, rs) ==
    ResultStats(
        Cardinality({ k \in 1..Len(rs) : rs[k].Success }),
        Cardinality({ k \in 1..Len(rs) : ~rs[k].Success }),
        Cardinality({ k \in 1..Len(us) : updatedPackages(rs, us[k].Name) }),
        Cardinality({ k \in 1..Len(us) : ~updatedPackages(rs, us[k].Name) }))

\* AnalyzeResults: the first loop counts the results one by one, the second
\* loop counts the updates one by one
AnalyzeResults(us, rs) ==
    ResultStats(
        Cardinality({ k \in 1..Len(rs) : rs[k].Success }),
        Cardinality({ k \in 1..Len(rs) : ~rs[k].Success }),
        Cardinality({ k \in 1..Len(us) : updatedPackages(rs, us[k].Name) }),
        Cardinality({ k \in 1..Len(us) :
            ~updatedPackages(rs, us[k].Name) /\ hasFailed(rs, us[k].Name) }))

\* what a report shows: its format and the numbers it carries, in the order
\* in which they are written
Written(format, numbers) == [format |-> format, numbers |-> numbers]

\* the numbers of the text report once AnalyzeResults has returned stats
textNumbers(us, stats) ==
    <<Len(us), stats.PackagesUpdated, stats.VulnerabilitiesFixed>> \o
    (IF stats.PackagesFailed > 0
     THEN <<stats.PackagesFailed, stats.VulnerabilitiesFailed>>
     ELSE <<>>)

\* fault: a text summary saying how many results succeeded where it should
\* say how many vulnerabilities were fixed
reportTextCountingResults(us, rs) ==
    IF Len(us) = 0 THEN Written("text", <<>>)
    ELSE Bind(AnalyzeResults(us, rs), LAMBDA stats :
            Written("text", textNumbers(us,
                [stats EXCEPT !.VulnerabilitiesFixed = stats.PackagesUpdated])))

\* reportText: the header total, then the summary line
reportText(us, rs) ==
    IF Len(us) = 0 THEN Written("text", <<>>)
    ELSE Bind(AnalyzeResults(us, rs), LAMBDA stats :
            Written("text", textNumbers(us, stats)))

\* reportJSON: the counters of Report in the order of its fields
reportJSON(us, rs) ==
    Bind(AnalyzeResults(us, rs), LAMBDA stats :
        Written("json", <<Len(us), stats.VulnerabilitiesFixed, stats.VulnerabilitiesFailed,
                          stats.PackagesUpdated, stats.PackagesFailed>>))

\* ReportResults
ReportResults(us, rs, format) ==
    IF format = "json" THEN reportJSON(us, rs) ELSE reportText(us, rs)

\* updates and results handed to ReportResults by a caller
ReportUpdateUniverse ==
    { PackageUpdate(n, v1_0_0, v1_2_0, "GHSA-1", "High") : n \in {"pkgA", "pkgB"} }

ReportResultUniverse ==
    { UpdateResult(u, ok) : u \in ReportUpdateUniverse, ok \in BOOLEAN }

\* ReportResults is entered with arbitrary updates and results
InitReport ==
    /\ pc = "returned"
    /\ matches = <<>>
    /\ updates \in SeqsUpTo(ReportUpdateUniverse, MaxUpdates)
    /\ idx = 0
    /\ appliedVersions = EmptyMap
    /\ results \in SeqsUpTo(ReportResultUniverse, MaxUpdates)
    /\ calls = <<>>
    /\ exitCode = NoExit
    /\ fatal = "none"
    /\ report = NoReport
    /\ versionCall = NoVersionCall

\* rep.ReportResults(updates, results, outputFormat) and the exit code; only
\* the JSON encoder returns an error
Report(format, ok) ==
    /\ pc = "returned"
    /\ format = "text" => ok
    /\ IF ok THEN /\ pc' = "exit"
                  /\ exitCode' = ExitCode(results)
                  /\ report' = ReportResults(updates, results, format)
                  /\ UNCHANGED fatal
       ELSE Fatal("report") /\ UNCHANGED report
    /\ UNCHANGED <<matches, updates, idx, appliedVersions, results, calls>>
    /\ UNCHANGED versionCall

\* ------------------------------------------------- the version functions
\* versions handed to normalizeVersion and shouldSkipUpdate
v1_0_1 == <<"v", "1", ".", "0", ".", "1">>
v1_2_0rc1 == <<"v", "1", ".", "2", ".", "0", "-", "r", "c", ".", "1">>
v1_2_0build == <<"v", "1", ".", "2", ".", "0", "+", "a", "b">>
v1_2_0rc1build == <<"v", "1", ".", "2", ".", "0", "-", "r", "c", ".", "1", "+", "a", "b">>
timestampOld == <<"2", "0", "2", "5", "0", "2", "2", "4", "1", "8", "0", "0", "2", "2">>
timestampNew == <<"2", "0", "2", "5", "0", "8", "2", "7", "0", "6", "5", "5", "5", "5">>
pseudoOld == <<"v", "0", ".", "0", ".", "0", "-">> \o timestampOld \o <<"-", "a", "b", "c">>
pseudoNew == <<"v", "0", ".", "0", ".", "0", "-">> \o timestampNew \o <<"-", "a", "b", "c">>
barePseudoOld == <<"0", ".", "0", ".", "0", "-">> \o timestampOld \o <<"-", "a", "b", "c">>
barePseudoNew == <<"0", ".", "0", ".", "0", "-">> \o timestampNew \o <<"-", "a", "b", "c">>

VersionUniverse ==
    { v1_0_0, v1_0_1, v1_2_0, v1_10_0, v1_2, v1_1a, v1_2_0rc1, v1_2_0build,
      v1_2_0rc1build, bare1_2_0, bare1_10_0, pseudoOld, pseudoNew, barePseudoOld,
      barePseudoNew, badVersion, emptyString }

\* a version function is about to be called with two strings
VersionCall(fn, a, b, out, skip) ==
    [fn |-> fn, a |-> a, b |-> b, out |-> out, skip |-> skip]

InitVersion ==
    /\ pc = "version"
    /\ matches = <<>>
    /\ updates = <<>>
    /\ idx = 0
    /\ appliedVersions = EmptyMap
    /\ results = <<>>
    /\ calls = <<>>
    /\ exitCode = NoExit
    /\ fatal = "none"
    /\ report = NoReport
    /\ versionCall \in { VersionCall("none", a, b, <<>>, FALSE) :
                            a \in VersionUniverse, b \in VersionUniverse }

\* normalizeVersion(currentVersion, targetVersion) is called
NormalizeVersionCall ==
    /\ versionCall.fn = "none"
    /\ versionCall' = [versionCall EXCEPT
            !.fn = "normalizeVersion",
            !.out = normalizeVersion(versionCall.a, versionCall.b)]
    /\ UNCHANGED <<pc, matches, updates, idx, appliedVersions, results, calls,
                   exitCode, fatal, report>>

\* normalizeVersion is called again, on its own result
NormalizeVersionAgain ==
    /\ versionCall.fn = "normalizeVersion"
    /\ versionCall' = [versionCall EXCEPT
            !.fn = "normalizeVersionAgain",
            !.b = versionCall.out,
            !.out = normalizeVersion(versionCall.a, versionCall.out)]
    /\ UNCHANGED <<pc, matches, updates, idx, appliedVersions, results, calls,
                   exitCode, fatal, report>>

\* shouldSkipUpdate(appliedVersion, targetVersion) is called
ShouldSkipUpdateCall ==
    /\ versionCall.fn = "none"
    /\ versionCall' = [versionCall EXCEPT
            !.fn = "shouldSkipUpdate",
            !.skip = shouldSkipUpdate(versionCall.a, versionCall.b)]
    /\ UNCHANGED <<pc, matches, updates, idx, appliedVersions, results, calls,
                   exitCode, fatal, report>>

Next ==
    \/ \E ok \in BOOLEAN : ScannerNew(ok)
    \/ \E ms \in SeqsUpTo(MatchUniverse, MaxMatches) : ScanOk(ms)
    \/ ScanFail
    \/ Extract
    \/ \E ok \in BOOLEAN : PatcherNew(ok)
    \/ UpdateAllSkip
    \/ \E ok \in BOOLEAN : UpdateAllAttempt(ok)
    \/ \E ok \in BOOLEAN : RunGoTidy(ok)
    \/ \E format \in {"text", "json"}, ok \in BOOLEAN : Report(format, ok)

Spec == Init /\ [][Next]_vars

NextApply ==
    \/ UpdateAllSkip
    \/ \E ok \in BOOLEAN : UpdateAllAttempt(ok)
    \/ \E ok \in BOOLEAN : RunGoTidy(ok)

SpecApply == InitApply /\ [][NextApply]_vars

NextReport ==
    \E format \in {"text", "json"}, ok \in BOOLEAN : Report(format, ok)

SpecReport == InitReport /\ [][NextReport]_vars

NextVersion ==
    \/ NormalizeVersionCall
    \/ NormalizeVersionAgain
    \/ ShouldSkipUpdateCall

SpecVersion == InitVersion /\ [][NextVersion]_vars

\* ============================================================== properties
Names == {"pkgA", "pkgB"}

\* a > b in the two-tier order: semver precedence when both are valid
\* semantic versions, byte-wise lexical order otherwise
Greater(a, b) ==
    IF IsValid(a) /\ IsValid(b) THEN Compare(a, b) = 1 ELSE StrLess(b, a)

\* positions of the updates of package p in the input of UpdateAll
PkgIdx(p) == { k \in 1..Len(updates) : updates[k].Name = p }

\* positions of the UpdatePackage invocations for package p
PkgCalls(p) ==
    { k \in 1..Len(calls) : calls[k].op = "UpdatePackage" /\ calls[k].name = p }

\* positions of the UpdateResults of package p
PkgResults(p) == { k \in 1..Len(results) : results[k].Update.Name = p }

HasSuccess(p) == \E k \in PkgResults(p) : results[k].Success
HasFailure(p) == \E k \in PkgResults(p) : ~results[k].Success

TwoDescending(p, a, b) ==
    /\ PkgIdx(p) = {a, b}
    /\ a < b
    /\ Greater(updates[a].TargetVersion, updates[b].TargetVersion)

\* only the update at position a of package p reached the mutation engine
\* and the results
OnlyApplied(p, a) ==
    /\ Cardinality(PkgCalls(p)) = 1
    /\ \A k \in PkgCalls(p) : calls[k].version = updates[a].TargetVersion
    /\ Cardinality(PkgResults(p)) = 1
    /\ \A k \in PkgResults(p) : results[k].Update = updates[a]

\* C2 as stated: for a package with updates A then B, A > B, only A is
\* passed to the mutation engine and exactly one UpdateResult exists for it.
C2_Original ==
    pc = "returned" =>
        \A p \in Names : \A a \in PkgIdx(p), b \in PkgIdx(p) :
            TwoDescending(p, a, b) => OnlyApplied(p, a)

\* C2 amended: the same, provided UpdatePackage succeeds for A.
C2_Monotonicity ==
    pc = "returned" =>
        \A p \in Names : \A a \in PkgIdx(p), b \in PkgIdx(p) :
            ( /\ TwoDescending(p, a, b)
              /\ \E k \in PkgResults(p) : results[k].Update = updates[a] /\ results[k].Success )
            => OnlyApplied(p, a)

C2_Witness ==
    /\ pc = "returned"
    /\ \E p \in Names : \E a \in PkgIdx(p), b \in PkgIdx(p) :
        /\ TwoDescending(p, a, b)
        /\ updates[a].TargetVersion = v1_10_0
        /\ updates[b].TargetVersion = v1_2_0
        /\ \E k \in PkgResults(p) : results[k].Update = updates[a] /\ results[k].Success
        /\ Len(updates) = 3

\* package p has exactly the two updates at positions a < b, and they are
\* the same PackageUpdate
TwoIdentical(p, a, b) ==
    /\ PkgIdx(p) = {a, b}
    /\ a < b
    /\ updates[a] = updates[b]

AllProcessed ==
    \A k \in 1..Len(updates) :
        \/ \E r \in 1..Len(results) : results[r].Update = updates[k]
        \/ HasSuccess(updates[k].Name)

\* every failed UpdatePackage call is recorded as a result with Success=false
FailuresRecorded ==
    /\ Len(results) = Cardinality({ k \in 1..Len(calls) : calls[k].op = "UpdatePackage" })
    /\ \A k \in 1..Len(results) :
        /\ calls[k].op = "UpdatePackage"
        /\ results[k].Success = calls[k].ok
        /\ results[k].Update.Name = calls[k].name

\* package X failed and a different package Y succeeded
MixedOutcome ==
    \E x \in Names, y \in Names : x # y /\ HasFailure(x) /\ ~HasSuccess(x) /\ HasSuccess(y)

\* C4 as stated: a failed UpdatePackage is recorded and never stops the
\* loop, and when X fails and another package Y succeeds run returns 1.
C4_Original ==
    /\ pc \in {"returned", "exit"} /\ fatal \in {"none", "report"} /\ updates # <<>>
         => FailuresRecorded /\ AllProcessed
    /\ pc = "exit" /\ MixedOutcome => exitCode = 1

\* C4 amended: the same, with exit code 1 provided report generation
\* succeeds (a report error is fatal: exit code 2).
C4_PartialFailure ==
    /\ pc \in {"returned", "exit"} /\ fatal \in {"none", "report"} /\ updates # <<>>
         => FailuresRecorded /\ AllProcessed
    /\ pc = "exit" /\ MixedOutcome =>
         exitCode = IF fatal = "report" THEN 2 ELSE 1

C4_Witness ==
    /\ pc = "exit"
    /\ fatal = "none"
    /\ exitCode = 1
    /\ Len(results) = 2
    /\ ~results[1].Success
    /\ results[2].Success
    /\ results[1].Update.Name # results[2].Update.Name

\* C5: UpdateAll calls RunGoTidy exactly once, after the last UpdatePackage
\* and never before or between them, for any number of updates and any
\* outcomes; the returned results are determined by the UpdatePackage calls
\* alone, whatever the outcome of the pass.
C5_TidyOnceLast ==
    /\ pc = "updateAll" => \A k \in 1..Len(calls) : calls[k].op = "UpdatePackage"
    /\ pc = "returned" =>
        /\ Len(calls) >= 1
        /\ calls[Len(calls)].op = "RunGoTidy"
        /\ \A k \in 1..(Len(calls) - 1) : calls[k].op = "UpdatePackage"
        /\ idx = Len(updates)
        /\ Len(results) = Len(calls) - 1
        /\ \A k \in 1..Len(results) :
            /\ results[k].Success = calls[k].ok
            /\ results[k].Update.Name = calls[k].name
            /\ results[k].Update.TargetVersion = calls[k].version

C5_Witness ==
    /\ pc = "returned"
    /\ Len(calls) = 3
    /\ ~calls[3].ok
    /\ calls[3].op = "RunGoTidy"
    /\ ~calls[1].ok
    /\ calls[2].ok

Fixed(u) == HasSuccess(u.Name)
NotFixed(u) == HasFailure(u.Name) /\ ~HasSuccess(u.Name)

\* C6: without a fatal error the exit code is 0 exactly when every extracted
\* update is fixed (or none was extracted) and 1 exactly when some extracted
\* update could not be fixed.
C6_ExitCodeMeaning ==
    pc = "exit" /\ fatal = "none" =>
        /\ exitCode = 0 <=> \A k \in 1..Len(updates) : Fixed(updates[k])
        /\ exitCode = 1 <=> \E k \in 1..Len(updates) : NotFixed(updates[k])

C8_SetupFatal ==
    fatal \in {"scannerNew", "scan", "patcherNew"} =>
        /\ pc = "exit"
        /\ exitCode = 2
        /\ calls = <<>>
        /\ results = <<>>

C8_Witness ==
    /\ fatal = "patcherNew"
    /\ exitCode = 2
    /\ Len(updates) = 2

\* the filter of GetFixableUpdates, stated on a match
Passes(m) ==
    /\ m.Type = GoModulePkg
    /\ m.FixState = FixStateFixed
    /\ Len(m.FixVersions) >= 1
    /\ m.FixVersions[1] # emptyString
    /\ isValidGoVersion(m.Name, normalizeVersion(m.Version, m.FixVersions[1]))

PassIdx == { k \in 1..Len(matches) : Passes(matches[k]) }

\* the position, among the emitted updates, of the passing match at k
Rank(k) == Cardinality({ j \in PassIdx : j <= k })

\* C9: GetFixableUpdates emits exactly one update for each match that is a
\* Go module, has fix state fixed, has a non-empty first fix version and a
\* valid normalized version, nothing for any other match, without
\* deduplication and in enumeration order.
C9_ExactFilter ==
    pc \notin {"scannerNew", "scan", "extract"} =>
        /\ Len(updates) = Cardinality(PassIdx)
        /\ \A k \in PassIdx :
            /\ updates[Rank(k)].Name = matches[k].Name
            /\ updates[Rank(k)].CurrentVersion = matches[k].Version
            /\ updates[Rank(k)].VulnID = matches[k].ID

C9_Witness ==
    /\ pc = "patcherNew"
    /\ Len(matches) = 2
    /\ Len(updates) = 2
    /\ updates[1] = updates[2]

\* C10: an emitted update carries the match's metadata severity when that is
\* present, and "Unknown" when the metadata or its severity is absent.
C10_Severity ==
    pc \notin {"scannerNew", "scan", "extract"} =>
        \A k \in PassIdx :
            updates[Rank(k)].Severity =
                IF matches[k].Metadata.nil \/ matches[k].Metadata.Severity = ""
                THEN "Unknown"
                ELSE matches[k].Metadata.Severity

\* the match at position k of the scan was a fixable Go module match whose
\* first fix version is v
Candidate(k, v) ==
    /\ matches[k].Type = GoModulePkg
    /\ matches[k].FixState = FixStateFixed
    /\ Len(matches[k].FixVersions) >= 1
    /\ matches[k].FixVersions[1] = v
    /\ v # emptyString

\* C11: every update emitted by GetFixableUpdates has a non-empty target
\* version that is the normalized first fix version of its match and is a
\* valid semantic version or passes the module-version check; a match whose
\* normalized version fails both checks is emitted under no version at all.
C11_TargetVersion ==
    pc \notin {"scannerNew", "scan", "extract"} =>
        /\ \A j \in 1..Len(updates) :
            /\ updates[j].TargetVersion # emptyString
            /\ \/ IsValid(updates[j].TargetVersion)
               \/ moduleCheck(updates[j].Name, updates[j].TargetVersion)
        /\ \A k \in PassIdx :
            updates[Rank(k)].TargetVersion =
                normalizeVersion(matches[k].Version, matches[k].FixVersions[1])
        /\ \A k \in 1..Len(matches) :
            ( /\ Candidate(k, matches[k].FixVersions[1])
              /\ ~IsValid(normalizeVersion(matches[k].Version, matches[k].FixVersions[1]))
              /\ ~moduleCheck(matches[k].Name,
                              normalizeVersion(matches[k].Version, matches[k].FixVersions[1])) )
            => \A j \in 1..Len(updates) : updates[j].VulnID # matches[k].ID

C11_Witness ==
    /\ pc = "patcherNew"
    /\ Len(matches) = 2
    /\ Candidate(1, badVersion)
    /\ Candidate(2, bare1_2_0)
    /\ Len(updates) = 1
    /\ updates[1].CurrentVersion = v1_0_0
    /\ updates[1].TargetVersion = v1_2_0

RECURSIVE LeadingNonDigits(_)
\* the part of a version before its first digit
LeadingNonDigits(v) ==
    IF v = <<>> \/ IsDigit(Head(v)) THEN <<>>
    ELSE <<Head(v)>> \o LeadingNonDigits(Tail(v))

\* the major.minor.patch core of a valid semantic version
Core(v) == parse(v).major \o <<".">> \o parse(v).minor \o <<".">> \o parse(v).patch

IsSubstring(sub, v) ==
    \E i \in 0..Len(v) : i + Len(sub) <= Len(v) /\ SubSeq(v, i + 1, i + Len(sub)) = sub

\* v is its prefix, then its major.minor.patch core, then any suffix
PrefixThenCore(v) == HasPrefix(v, LeadingNonDigits(v) \o Core(v))

RECURSIVE Value(_)
\* the number a run of digits denotes
Value(ds) ==
    IF ds = <<>> THEN 0 ELSE 10 * Value(Upto(ds, Len(ds) - 1)) + (Ord(ds[Len(ds)]) - 48)

\* semantic-version precedence a >= b of two valid semantic versions:
\* numeric major, minor and patch, then the pre-release
PrecedenceGeq(a, b) ==
    LET pa == parse(a)
        pb == parse(b)
        na == <<Value(pa.major), Value(pa.minor), Value(pa.patch)>>
        nb == <<Value(pb.major), Value(pb.minor), Value(pb.patch)>>
    IN  IF na[1] # nb[1] THEN na[1] > nb[1]
        ELSE IF na[2] # nb[2] THEN na[2] > nb[2]
        ELSE IF na[3] # nb[3] THEN na[3] > nb[3]
        ELSE comparePrerelease(pa.prerelease, pb.prerelease) >= 0

\* a >= b in the two-tier order
TwoTierGeq(a, b) ==
    IF IsValid(a) /\ IsValid(b) THEN PrecedenceGeq(a, b) ELSE ~StrLess(a, b)

\* the decision of shouldSkipUpdate on applied version a and target b, when
\* these were its arguments
Decided(a, b, skip) ==
    (versionCall.a = a /\ versionCall.b = b) => versionCall.skip = skip

\* C13: shouldSkipUpdate(applied, target) is true iff applied >= target in
\* the two-tier order: v1.2.0 then v1.10.0 is not skipped, v1.10.0 then
\* v1.2.0 is skipped, equal versions are skipped, and of two pseudo-versions
\* that differ in the timestamp the one with the larger timestamp is greater.
C13_SkipDecision ==
    versionCall.fn = "shouldSkipUpdate" =>
        /\ versionCall.skip = TwoTierGeq(versionCall.a, versionCall.b)
        /\ Decided(v1_2_0, v1_10_0, FALSE)
        /\ Decided(v1_10_0, v1_2_0, TRUE)
        /\ versionCall.a = versionCall.b => versionCall.skip
        /\ Decided(barePseudoOld, barePseudoNew, FALSE)
        /\ Decided(barePseudoNew, barePseudoOld, TRUE)
        /\ Decided(pseudoOld, pseudoNew, FALSE)
        /\ Decided(pseudoNew, pseudoOld, TRUE)

C13_Witness ==
    /\ versionCall.fn = "shouldSkipUpdate"
    /\ versionCall.a = barePseudoOld
    /\ versionCall.b = barePseudoNew
    /\ ~versionCall.skip

\* the counters of a JSON report
JSONTotal == report.numbers[1]
JSONVulnerabilitiesFixed == report.numbers[2]
JSONVulnerabilitiesFailed == report.numbers[3]
JSONPackagesUpdated == report.numbers[4]
JSONPackagesFailed == report.numbers[5]

\* C14: PackagesUpdated is the number of distinct package names with a
\* successful result, PackagesFailed the number of distinct package names
\* with a failed result and no successful one.
C14_PackageCounts ==
    (pc = "exit" /\ report.format = "json") =>
        /\ JSONPackagesUpdated = Cardinality({ p \in Names : HasSuccess(p) })
        /\ JSONPackagesFailed =
                Cardinality({ p \in Names : HasFailure(p) /\ ~HasSuccess(p) })

\* positions of the updates whose package has a successful result
FixedIdx == { k \in 1..Len(updates) : HasSuccess(updates[k].Name) }

\* positions of the updates whose package has a failed result and no
\* successful one
FailedIdx ==
    { k \in 1..Len(updates) : HasFailure(updates[k].Name) /\ ~HasSuccess(updates[k].Name) }

\* C15: VulnerabilitiesFixed counts the updates whose package has a
\* successful result, VulnerabilitiesFailed the updates whose package has a
\* failed result and no successful one; no update is in both counts, and
\* their sum is at most the number of updates.
C15_VulnerabilityCounts ==
    (pc = "exit" /\ report.format = "json") =>
        /\ JSONVulnerabilitiesFixed = Cardinality(FixedIdx)
        /\ JSONVulnerabilitiesFailed = Cardinality(FailedIdx)
        /\ FixedIdx \cap FailedIdx = {}
        /\ JSONVulnerabilitiesFixed + JSONVulnerabilitiesFailed <= Len(updates)

C15_Witness ==
    /\ pc = "exit"
    /\ report.format = "json"
    /\ Len(updates) = 3
    /\ JSONVulnerabilitiesFixed = 1
    /\ JSONVulnerabilitiesFailed = 0
    /\ \E p \in Names : PkgIdx(p) # {} /\ PkgResults(p) = {}

\* the numbers t of a text report agree with the numbers j of a JSON report
SameNumbers(t, j) ==
    /\ Len(t) \in {3, 5}
    /\ t[1] = j[1]
    /\ t[2] = j[4]
    /\ t[3] = j[2]
    /\ Len(t) = 5 => (t[4] = j[5] /\ t[5] = j[3])
    /\ Len(t) = 3 => (j[5] = 0 /\ j[3] = 0)

\* C16: for the same updates and results, with at least one update, the
\* text report and the JSON report carry the same total, packages updated,
\* vulnerabilities fixed, packages failed and vulnerabilities failed, and
\* when the text leaves the failed part out both failed counts of the JSON
\* are 0.
C16_SameNumbers ==
    (pc = "exit" /\ Len(updates) > 0) =>
        /\ report.format = "text" =>
                SameNumbers(report.numbers, reportJSON(updates, results).numbers)
        /\ report.format = "json" =>
                SameNumbers(reportText(updates, results).numbers, report.numbers)

C16_Witness ==
    /\ pc = "exit"
    /\ report.format = "text"
    /\ report.numbers = <<3, 1, 2, 1, 1>>

\* C17 as stated: at most one UpdateResult, and at most one UpdatePackage
\* invocation, for each distinct package name.
C17_Original ==
    pc = "returned" =>
        \A p \in Names :
            Cardinality(PkgResults(p)) <= 1 /\ Cardinality(PkgCalls(p)) <= 1

\* j and k are successive UpdatePackage invocations for package p
Successive(p, j, k) ==
    /\ j \in PkgCalls(p)
    /\ k \in PkgCalls(p)
    /\ j < k
    /\ \A i \in PkgCalls(p) : ~(j < i /\ i < k)

\* C17 amended: each package has as many UpdateResults as UpdatePackage
\* invocations, at most one per update of the package, and an invocation
\* follows another for the same package only when that one failed or when
\* its target is strictly greater than the target that one applied.
C17_OncePerAdvance ==
    pc = "returned" =>
        \A p \in Names :
            /\ Cardinality(PkgResults(p)) = Cardinality(PkgCalls(p))
            /\ Cardinality(PkgCalls(p)) <= Cardinality(PkgIdx(p))
            /\ \A j \in 1..Len(calls), k \in 1..Len(calls) :
                Successive(p, j, k) =>
                    \/ ~calls[j].ok
                    \/ Greater(calls[k].version, calls[j].version)

C17_Witness ==
    /\ pc = "returned"
    /\ \E p \in Names :
        /\ Cardinality(PkgResults(p)) = 2
        /\ \A k \in PkgResults(p) : results[k].Success
        /\ Cardinality(PkgIdx(p)) = 3

\* C18: for a current version that is a valid semantic version whose
\* major.minor.patch core is not a substring of it, such as v1.2,
\* normalizeVersion returns the suggested version as it is.
C18_Fallback ==
    versionCall.fn = "normalizeVersion" =>
        /\ (IsValid(versionCall.a) /\ ~IsSubstring(Core(versionCall.a), versionCall.a))
            => versionCall.out = versionCall.b
        /\ versionCall.a = v1_2 =>
            (~IsSubstring(Core(versionCall.a), versionCall.a) /\ versionCall.out = versionCall.b)

C18_Witness ==
    /\ versionCall.fn = "normalizeVersion"
    /\ versionCall.a = v1_2
    /\ versionCall.b = bare1_2_0
    /\ versionCall.out = bare1_2_0

\* C19: normalizeVersion returns a suggested version that already starts
\* with the prefix of the current version as it is, and applying it to its
\* own result changes nothing.
C19_PrefixOnlyIfMissing ==
    /\ ( /\ versionCall.fn = "normalizeVersion"
         /\ IsValid(versionCall.a)
         /\ HasPrefix(versionCall.b, LeadingNonDigits(versionCall.a)) )
       => versionCall.out = versionCall.b
    /\ versionCall.fn = "normalizeVersionAgain" => versionCall.out = versionCall.b

\* C20: the first update of each package reaches UpdatePackage and the
\* results, and a fixable match whose normalized fix version is the version
\* the package has is emitted with that version as its target.
C20_FirstSubmitted ==
    /\ pc \notin {"scannerNew", "scan", "extract"} =>
        \A k \in 1..Len(matches) :
            ( /\ Candidate(k, matches[k].FixVersions[1])
              /\ IsValid(matches[k].Version)
              /\ normalizeVersion(matches[k].Version, matches[k].FixVersions[1])
                    = matches[k].Version )
            => \E j \in 1..Len(updates) :
                /\ updates[j].VulnID = matches[k].ID
                /\ updates[j].TargetVersion = updates[j].CurrentVersion
    /\ pc = "returned" =>
        \A p \in Names :
            PkgIdx(p) # {} =>
                /\ PkgCalls(p) # {}
                /\ PkgResults(p) # {}
                /\ calls[Min(PkgCalls(p))].version = updates[Min(PkgIdx(p))].TargetVersion
                /\ results[Min(PkgResults(p))].Update = updates[Min(PkgIdx(p))]

C20_Witness ==
    /\ pc = "returned"
    /\ Len(results) = 2
    /\ results[1].Update.VulnID = "GHSA-4"
    /\ results[1].Update.CurrentVersion = v2_0_0
    /\ results[1].Update.TargetVersion = v2_0_0
    /\ calls[1].version = v2_0_0

\* the applied-version map after version v was applied to package n
Recorded(applied, n, v) ==
    [m \in DOMAIN applied \cup {n} |-> IF m = n THEN v ELSE applied[m]]

\* the step is an UpdatePackage invocation
Invoked ==
    /\ Len(calls') = Len(calls) + 1
    /\ calls'[Len(calls')].op = "UpdatePackage"

\* positions of the successful UpdatePackage invocations for package p
Applications(p) == { k \in PkgCalls(p) : calls[k].ok }

\* the step skips the update at idx + 1
SkipStep == pc = "updateAll" /\ idx' = idx + 1 /\ calls' = calls

\* the effect of one step on the applied versions
AppliedFrame ==
    /\ (Invoked /\ ~calls'[Len(calls')].ok) => appliedVersions' = appliedVersions
    /\ (Invoked /\ calls'[Len(calls')].ok) =>
            appliedVersions' = Recorded(appliedVersions, calls'[Len(calls')].name,
                                        calls'[Len(calls')].version)
    /\ ~Invoked => appliedVersions' = appliedVersions
    /\ SkipStep =>
            /\ Applications(updates[idx + 1].Name) # {}
            /\ ~Greater(updates[idx + 1].TargetVersion,
                        calls[CHOOSE k \in Applications(updates[idx + 1].Name) :
                                \A i \in Applications(updates[idx + 1].Name) : i <= k].version)

\* C21: a failed UpdatePackage call leaves the applied-version map as it
\* was, a successful one changes only the entry of its package, to its
\* target, no other step changes the map, and an update is skipped only
\* against the version last applied with success to its package.
C21_AppliedOnSuccess == [][AppliedFrame]_vars

C21_Witness ==
    /\ pc = "returned"
    /\ Len(calls) = 4
    /\ calls[1].name = "pkgA" /\ calls[1].ok /\ calls[1].version = v1_2_0
    /\ calls[2].name = "pkgA" /\ ~calls[2].ok /\ calls[2].version = v1_10_0
    /\ calls[3].name = "pkgB" /\ ~calls[3].ok
    /\ appliedVersions = Recorded(EmptyMap, "pkgA", v1_2_0)

\* C22: in a run, where the results come from UpdateAll on the reported
\* updates, the vulnerabilities fixed and the vulnerabilities failed add up
\* to the number of updates.
C22_FixedOrFailed ==
    pc = "exit" =>
        /\ report.format = "json" =>
            /\ JSONTotal = Len(updates)
            /\ JSONVulnerabilitiesFixed + JSONVulnerabilitiesFailed = JSONTotal
        /\ (report.format = "text" /\ Len(report.numbers) = 3) =>
                report.numbers[3] = Len(updates)
        /\ (report.format = "text" /\ Len(report.numbers) = 5) =>
                report.numbers[3] + report.numbers[5] = Len(updates)
        /\ \A k \in 1..Len(updates) :
                report.format # "none" => PkgResults(updates[k].Name) # {}

C22_Witness ==
    /\ pc = "exit"
    /\ report.format = "json"
    /\ Len(updates) = 2
    /\ Len(results) = 1
    /\ JSONVulnerabilitiesFixed = 2

\* every UpdatePackage invocation succeeded and every target is a valid
\* semantic version
AllSucceedAllSemver ==
    /\ \A k \in 1..Len(calls) : calls[k].op = "UpdatePackage" => calls[k].ok
    /\ \A k \in 1..Len(updates) : IsValid(updates[k].TargetVersion)

\* C23: when every invocation succeeds and every target is a valid semantic
\* version, the version last applied to a package compares equal to the
\* greatest target among the updates of that package, in whatever order the
\* updates come.
C23_OrderIndependent ==
    (pc = "returned" /\ AllSucceedAllSemver) =>
        \A p \in Names :
            PkgIdx(p) # {} =>
                /\ p \in DOMAIN appliedVersions
                /\ \A k \in PkgIdx(p) :
                        Compare(appliedVersions[p], updates[k].TargetVersion) >= 0
                /\ \E k \in PkgIdx(p) :
                        Compare(appliedVersions[p], updates[k].TargetVersion) = 0

C23_Witness ==
    /\ pc = "returned"
    /\ AllSucceedAllSemver
    /\ Len(updates) = 3
    /\ PkgIdx("pkgA") = {1, 2, 3}
    /\ updates[1].TargetVersion = v1_2
    /\ updates[2].TargetVersion = v1_10_0
    /\ updates[3].TargetVersion = v1_2_0
    /\ appliedVersions["pkgA"] = v1_10_0

\* the i-th smallest element of a set of positions
Nth(S, i) == CHOOSE x \in S : Cardinality({ y \in S : y <= x }) = i

\* the results are the updates at the positions S, in order, and each update
\* at another position comes after a successful result of its package
ResultsAt(S) ==
    /\ Cardinality(S) = Len(results)
    /\ \A i \in 1..Len(results) : results[i].Update = updates[Nth(S, i)]
    /\ \A k \in (1..Len(updates)) \ S :
        \E i \in 1..Len(results) :
            /\ Nth(S, i) < k
            /\ results[i].Success
            /\ results[i].Update.Name = updates[k].Name

\* C24: the results of UpdateAll are, in input order, the input updates that
\* were passed to UpdatePackage, one result for each invocation, and each
\* update without a result comes after a successful result of its package.
C24_Subsequence ==
    pc = "returned" =>
        /\ Len(results) = Cardinality({ k \in 1..Len(calls) : calls[k].op = "UpdatePackage" })
        /\ \E S \in SUBSET (1..Len(updates)) : ResultsAt(S)

C24_Witness ==
    /\ pc = "returned"
    /\ Len(updates) = 3
    /\ Len(results) = 2
    /\ results[1].Update = updates[1]
    /\ results[2].Update = updates[3]
    /\ results[2].Update # updates[2]
    /\ results[1].Update.Name = "pkgA"
    /\ results[2].Update.Name = "pkgB"

====
